---- MODULE Spec2Model ----
(***************************************************************************)
(* A model of the OpenClaw avatar chat front-end: the provider dispatch    *)
(* facade and its three adapters (services/aiService.ts), and the chat     *)
(* session state machine of the App component (App.tsx) with the chat      *)
(* input of ChatUI (components/ChatUI.tsx).                                *)
(***************************************************************************)
EXTENDS Integers, Sequences, FiniteSets, TLC

(***************************************************************************)
(* JSON values as the adapters see them after response.json().             *)
(* t is the JavaScript type, s the text of a scalar (the characters of a   *)
(* string, the decimal text of a number, the JSON text of a nested         *)
(* object), a the elements of an array.                                    *)
(***************************************************************************)
Undef == [t |-> "undef", s |-> "", a |-> <<>>]

Null == [t |-> "null", s |-> "null", a |-> <<>>]

Str(x) == [t |-> "str", s |-> x, a |-> <<>>]

Num(x) == [t |-> "num", s |-> x, a |-> <<>>]

Bool(x) == [t |-> "bool", s |-> x, a |-> <<>>]

Obj(x) == [t |-> "obj", s |-> x, a |-> <<>>]

Arr(xs) == [t |-> "arr", s |-> "", a |-> xs]

\* JavaScript truthiness, as the || chains and the if conditions test it.
Truthy(v) ==
    CASE v.t = "undef" -> FALSE
      [] v.t = "null" -> FALSE
      [] v.t = "str" -> v.s # ""
      [] v.t = "num" -> v.s # "0"
      [] v.t = "bool" -> v.s = "true"
      [] OTHER -> TRUE

\* typeof v === 'string'
IsString(v) == v.t = "str"

\* Array.isArray(v)
IsArray(v) == v.t = "arr"

RECURSIVE JoinJSON(_, _)
RECURSIVE JSONstringify(_)
\* JSON.stringify of a value: a string gains its quotes, an array its
\* brackets and commas, the other values are their JSON text.
JSONstringify(v) ==
    CASE v.t = "str" -> "\"" \o v.s \o "\""
      [] v.t = "arr" -> "[" \o JoinJSON(v.a, 1) \o "]"
      [] OTHER -> v.s

JoinJSON(xs, i) ==
    IF i > Len(xs) THEN ""
    ELSE JSONstringify(xs[i]) \o (IF i < Len(xs) THEN "," ELSE "") \o JoinJSON(xs, i + 1)

\* The keys of an agent's reply the normalizer looks at, in wire order.
BodyKeys == <<"response", "message", "text", "output", "thoughts", "steps", "reasoning">>

RECURSIVE JoinBody(_, _, _)
\* The members of JSON.stringify(data): every key the body carries.
JoinBody(data, i, first) ==
    IF i > Len(BodyKeys) THEN ""
    ELSE IF data[BodyKeys[i]].t = "undef" THEN JoinBody(data, i + 1, first)
    ELSE (IF first THEN "" ELSE ",") \o "\"" \o BodyKeys[i] \o "\":"
         \o JSONstringify(data[BodyKeys[i]]) \o JoinBody(data, i + 1, FALSE)

\* JSON.stringify(data) of a reply object.
StringifyBody(data) == "{" \o JoinBody(data, 1, TRUE) \o "}"

(***************************************************************************)
(* The canonical result of a provider call: an AIResponse, or the Error    *)
(* the adapter throws.  adapters lists the adapters the facade entered and *)
(* fetches the adapters that issued a network call, in order; hasThoughts  *)
(* tells whether the AIResponse carries a thoughts field at all.           *)
(***************************************************************************)
Ok(content, hasThoughts, thoughts, fetches) ==
    [ok |-> TRUE, content |-> content, hasThoughts |-> hasThoughts,
     thoughts |-> thoughts, err |-> "", adapters |-> <<>>, fetches |-> fetches]

Err(message, fetches) ==
    [ok |-> FALSE, content |-> Undef, hasThoughts |-> FALSE,
     thoughts |-> <<>>, err |-> message, adapters |-> <<>>, fetches |-> fetches]

\* The messages of the runtime's own exceptions.
FetchFailed == "Failed to fetch"

JsonSyntaxError == "Unexpected token < in JSON at position 0"

NullDeref == "Cannot read properties of null"

UndefinedDeref == "Cannot read properties of undefined"

\* The fixed texts of the adapters.
GeminiFallback == "I didn't catch that."

GeminiFailed == "Failed to communicate with Gemini."

OpenRouterKeyMissing == "OpenRouter API key is missing."

OpenRouterError == "OpenRouter Error"

OpenClawUrlRequired == "OpenClaw/Agent Base URL is required."

OpenClawFailed == "Failed to connect to OpenClaw Agent. Check URL and Network tab."

UnknownProvider == "Unknown API Provider"

\* A variant that returns the text as it came, an empty text as "".
getGeminiResponseNoFallback(history, model, raw) ==
    IF raw.kind = "ok"
    THEN Ok(IF Truthy(raw.text) THEN raw.text ELSE Str(""), FALSE, <<>>, <<"gemini">>)
    ELSE Err(GeminiFailed, <<"gemini">>)

\* --- Google Gemini -------------------------------------------------------
\* raw.kind "ok": generateContent resolved and raw.text is response.text;
\* any other kind: generateContent rejected.
getGeminiResponse(history, model, raw) ==
    IF raw.kind = "ok"
    THEN Ok(IF Truthy(raw.text) THEN raw.text ELSE Str(GeminiFallback), FALSE, <<>>, <<"gemini">>)
    ELSE Err(GeminiFailed, <<"gemini">>)

\* --- OpenRouter ----------------------------------------------------------
\* data.choices[0]?.message?.content || "" on the shapes a 2xx body takes.
OpenRouterContent(raw) ==
    IF raw.shape = "content" /\ Truthy(raw.content) THEN raw.content ELSE Str("")

\* A variant that tests the key only once the request has been answered.
getOpenRouterResponseLateKeyTest(history, settings, raw) ==
    IF settings.openRouterApiKey = "" THEN Err(OpenRouterKeyMissing, <<"openrouter">>)
    ELSE IF raw.kind = "net" THEN Err(FetchFailed, <<"openrouter">>)
    ELSE IF raw.kind = "http" THEN Err(OpenRouterError, <<"openrouter">>)
    ELSE Ok(OpenRouterContent(raw), FALSE, <<>>, <<"openrouter">>)

getOpenRouterResponse(history, settings, raw) ==
    IF settings.openRouterApiKey = "" THEN Err(OpenRouterKeyMissing, <<>>)
    ELSE IF raw.kind = "net" THEN Err(FetchFailed, <<"openrouter">>)
    ELSE IF raw.shape = "badjson" THEN Err(JsonSyntaxError, <<"openrouter">>)
    ELSE IF raw.shape = "null" THEN Err(NullDeref, <<"openrouter">>)
    ELSE IF raw.kind = "http"
         THEN Err(IF raw.shape = "msg" /\ raw.errmsg # "" THEN raw.errmsg
                  ELSE OpenRouterError, <<"openrouter">>)
    ELSE IF raw.shape = "nochoices" THEN Err(UndefinedDeref, <<"openrouter">>)
    ELSE Ok(OpenRouterContent(raw), FALSE, <<>>, <<"openrouter">>)

\* A variant that reads text ahead of response and message.
OpenClawContentTextFirst(data) ==
    IF Truthy(data.text) THEN data.text
    ELSE IF Truthy(data.response) THEN data.response
    ELSE IF Truthy(data.message) THEN data.message
    ELSE IF Truthy(data.output) THEN data.output
    ELSE Str(StringifyBody(data))

\* --- OpenClaw / custom agent ---------------------------------------------
\* data.response || data.message || data.text || data.output || JSON.stringify(data)
OpenClawContent(data) ==
    IF Truthy(data.response) THEN data.response
    ELSE IF Truthy(data.message) THEN data.message
    ELSE IF Truthy(data.text) THEN data.text
    ELSE IF Truthy(data.output) THEN data.output
    ELSE Str(StringifyBody(data))

\* data.steps.map(s => typeof s === 'string' ? s : JSON.stringify(s))
StepsToStrings(steps) ==
    [i \in 1..Len(steps) |->
        IF IsString(steps[i]) THEN steps[i] ELSE Str(JSONstringify(steps[i]))]

\* A variant that lets steps win over thoughts.
OpenClawThoughtsStepsFirst(data) ==
    IF Truthy(data.steps) /\ IsArray(data.steps)
    THEN [i \in 1..Len(data.steps.a) |->
             IF IsString(data.steps.a[i]) THEN data.steps.a[i]
             ELSE Str(JSONstringify(data.steps.a[i]))]
    ELSE IF Truthy(data.thoughts) /\ IsArray(data.thoughts) THEN data.thoughts.a
    ELSE IF Truthy(data.reasoning) THEN <<data.reasoning>>
    ELSE <<>>

\* let thoughts = []; if ... else if ... else if ...
OpenClawThoughts(data) ==
    IF Truthy(data.thoughts) /\ IsArray(data.thoughts) THEN data.thoughts.a
    ELSE IF Truthy(data.steps) /\ IsArray(data.steps) THEN StepsToStrings(data.steps.a)
    ELSE IF Truthy(data.reasoning) THEN <<data.reasoning>>
    ELSE <<>>

\* A variant that leaves the thoughts field out when the trace is empty.
OpenClawNormalizeOmitEmpty(data) ==
    Ok(OpenClawContent(data), OpenClawThoughts(data) # <<>>, OpenClawThoughts(data),
       <<"openclaw">>)

\* return { content, thoughts }
OpenClawNormalize(data) ==
    Ok(OpenClawContent(data), TRUE, OpenClawThoughts(data), <<"openclaw">>)

\* `Agent Endpoint Error: ${response.status} ${response.statusText}`
AgentEndpointError(raw) == "Agent Endpoint Error: " \o raw.status

\* The try block: the fetch, the status test, response.json() and the
\* normalization.  What it throws is an Err with the thrown message.
OpenClawTry(raw) ==
    IF raw.kind = "http" THEN Err(AgentEndpointError(raw), <<"openclaw">>)
    ELSE IF raw.kind # "ok" THEN Err(FetchFailed, <<"openclaw">>)
    ELSE IF raw.shape = "object" THEN OpenClawNormalize(raw.body)
    ELSE IF raw.shape = "value"
         THEN Ok(Str(JSONstringify(raw.content)), TRUE, <<>>, <<"openclaw">>)
    ELSE IF raw.shape = "null" THEN Err(NullDeref, <<"openclaw">>)
    ELSE Err(JsonSyntaxError, <<"openclaw">>)

\* The catch block: whatever the try block threw is logged and replaced.
OpenClawCatch(thrown) == Err(OpenClawFailed, thrown.fetches)

getOpenClawResponse(history, settings, raw) ==
    IF settings.openClawBaseUrl = "" THEN Err(OpenClawUrlRequired, <<>>)
    ELSE IF Len(history) = 0 THEN Err(UndefinedDeref, <<>>)
    ELSE IF OpenClawTry(raw).ok THEN OpenClawTry(raw)
    ELSE OpenClawCatch(OpenClawTry(raw))

\* --- Main facade ---------------------------------------------------------
\* The facade entering one adapter: the call is recorded in front of what
\* the adapter returns.
Entered(adapter, out) == [out EXCEPT !.adapters = <<adapter>> \o @]

\* A variant that falls back to Gemini when another adapter fails.
getAIResponseWithFallback(history, settings, raw) ==
    LET first == CASE settings.apiProvider = "gemini" ->
                        Entered("gemini", getGeminiResponse(history, settings.geminiModel, raw))
                   [] settings.apiProvider = "openrouter" ->
                        Entered("openrouter", getOpenRouterResponse(history, settings, raw))
                   [] settings.apiProvider = "openclaw" ->
                        Entered("openclaw", getOpenClawResponse(history, settings, raw))
                   [] OTHER -> Err(UnknownProvider, <<>>)
    IN IF first.ok \/ settings.apiProvider = "gemini" THEN first
       ELSE [Err(GeminiFailed, first.fetches \o <<"gemini">>)
                EXCEPT !.adapters = first.adapters \o <<"gemini">>]

getAIResponse(history, settings, raw) ==
    CASE settings.apiProvider = "gemini" ->
            Entered("gemini", getGeminiResponse(history, settings.geminiModel, raw))
      [] settings.apiProvider = "openrouter" ->
            Entered("openrouter", getOpenRouterResponse(history, settings, raw))
      [] settings.apiProvider = "openclaw" ->
            Entered("openclaw", getOpenClawResponse(history, settings, raw))
      [] OTHER -> Err(UnknownProvider, <<>>)

(***************************************************************************)
(* Settings, messages and the start-up resolution of App.tsx.              *)
(***************************************************************************)
DEFAULT_SETTINGS ==
    [apiProvider |-> "gemini",
     geminiModel |-> "gemini-3-flash-preview",
     openRouterApiKey |-> "",
     openRouterModel |-> "google/gemini-flash-1.5",
     openClawBaseUrl |-> "http://localhost:8000/api/v1/chat",
     openClawAgentId |-> "",
     openClawAuthToken |-> "",
     sttProvider |-> "native",
     activeAvatarId |-> "robot"]

\* type ApiProvider
ApiProviders == {"gemini", "openrouter", "openclaw"}

\* A Message of the history.  hasThoughts is whether the thoughts field is
\* set at all; an attachment is its file name; id is "" until the handler
\* that makes the Message has given it one.
UserMsg(text, attachments) ==
    [id |-> "", role |-> "user", content |-> Str(text), hasThoughts |-> FALSE,
     thoughts |-> <<>>, attachments |-> attachments]

AssistantMsg(aiResponse) ==
    [id |-> "", role |-> "assistant", content |-> aiResponse.content,
     hasThoughts |-> aiResponse.hasThoughts, thoughts |-> aiResponse.thoughts,
     attachments |-> <<>>]

SystemMsg(text) ==
    [id |-> "", role |-> "system", content |-> Str(text), hasThoughts |-> FALSE,
     thoughts |-> <<>>, attachments |-> <<>>]

\* providerParam.toUpperCase()
ToUpperCase(p) ==
    CASE p = "gemini" -> "GEMINI"
      [] p = "openrouter" -> "OPENROUTER"
      [] p = "openclaw" -> "OPENCLAW"
      [] OTHER -> p

\* id: Date.now().toString(), and (Date.now() + 1).toString(), at the clock
\* reading t
WithId(msg, t) == [msg EXCEPT !.id = ToString(t)]

AutoConfigMsg(providerParam) ==
    [SystemMsg("AUTO-CONFIG: Connected to " \o ToUpperCase(providerParam)
               \o " via URL parameters.") EXCEPT !.id = "sys-init"]

\* err.message || "Communication Error", shown as `Error: ${errorMsg}`
ErrorMsg(message) ==
    SystemMsg("Error: " \o (IF message = "" THEN "Communication Error" ELSE message))

TranscriptionFailedMsg ==
    SystemMsg("System Error: Transcription failed. Check Local Whisper URL.")

\* speakAndAnimate(text) calls text.replace(...), which only a string has.
ReplaceNotAFunction == "text.replace is not a function"

speakAndAnimateThrows(text) == ~IsString(text)

\* { ...initialSettings, ...parsed }: the fields the blob carries win.
Overlay(base, parsed) ==
    [k \in DOMAIN base \cup DOMAIN parsed |->
        IF k \in DOMAIN parsed THEN parsed[k] ELSE base[k]]

\* Percent-decoding of the query values the page is loaded with here:
\* every well-formed %XX escape is replaced by its character.
PercentDecode(s) ==
    CASE s = "http%3A%2F%2Fx" -> "http://x"
      [] s = "http%3A%2F%2Fx%2F50%25" -> "http://x/50%"
      [] s = "http%3A%2F%2Fx%2F%2541" -> "http://x/%41"
      [] s = "http://x/%41" -> "http://x/A"
      [] OTHER -> s

\* URLSearchParams.get(name) for a query that carries name=s ("" for a
\* query without it): the value, percent-decoded.
URLSearchParamsGet(s) == PercentDecode(s)

\* decodeURIComponent(s): percent-decoding, and a URIError for a % that
\* starts no escape ("<URIError>" stands for the throw).
decodeURIComponent(s) ==
    IF s \in {"50%", "http://x/50%"} THEN "<URIError>" ELSE PercentDecode(s)

\* The settings-load effect.  stored is localStorage's blob: kind "none"
\* (no item), "bad" (JSON.parse throws) or "json" with the parsed fields;
\* params holds the values of the page's query as they are written in the
\* URL, "" for a missing one.  thrown: the try block was left before
\* setSettings.
LoadSettings(stored, params) ==
    LET get == [k \in DOMAIN params |-> URLSearchParamsGet(params[k])]
        overlaid == IF stored.kind = "json"
                    THEN LET merged == Overlay(DEFAULT_SETTINGS, stored.fields)
                         IN IF merged.activeAvatarId = ""
                            THEN [merged EXCEPT !.activeAvatarId = "robot"]
                            ELSE merged
                    ELSE DEFAULT_SETTINGS
        recognized == get.provider \in ApiProviders
        withProvider == [overlaid EXCEPT !.apiProvider = get.provider]
        withUrl == IF get.baseUrl # ""
                   THEN [withProvider EXCEPT !.openClawBaseUrl = decodeURIComponent(get.baseUrl)]
                   ELSE withProvider
        withAgent == IF get.agentId # ""
                     THEN [withUrl EXCEPT !.openClawAgentId = get.agentId]
                     ELSE withUrl
        withToken == IF get.authToken # ""
                     THEN [withAgent EXCEPT !.openClawAuthToken = get.authToken]
                     ELSE withAgent
        withModel == IF get.model # "" /\ get.provider = "gemini"
                     THEN [withToken EXCEPT !.geminiModel = get.model]
                     ELSE IF get.model # "" /\ get.provider = "openrouter"
                     THEN [withToken EXCEPT !.openRouterModel = get.model]
                     ELSE withToken
        thrown == stored.kind = "bad"
                  \/ (recognized /\ get.baseUrl # ""
                      /\ decodeURIComponent(get.baseUrl) = "<URIError>")
    IN [thrown |-> thrown,
        settings |-> IF thrown THEN DEFAULT_SETTINGS
                     ELSE IF recognized THEN withModel ELSE overlaid,
        notice |-> IF ~thrown /\ recognized THEN <<AutoConfigMsg(get.provider)>> ELSE <<>>]

(***************************************************************************)
(* The requests the OpenRouter and the custom-agent adapter put on the     *)
(* wire.  An Attachment is its name, MIME type and data URI.               *)
(***************************************************************************)
Attachment(name, type, data) == [name |-> name, type |-> type, data |-> data]

\* att.type.startsWith('image/')
IsImage(type) == type \in {"image/png", "image/jpeg"}

OpenRouterInstruction ==
    "You are an intelligent 3D avatar interface connected to the OpenClaw network. Keep responses under 3 sentences for better animation timing."

TextPart(text) == [type |-> "text", text |-> text, url |-> ""]

ImageUrlPart(url) == [type |-> "image_url", text |-> Undef, url |-> url]

RECURSIVE ImageUrlParts(_)
\* One image_url part per image among the attachments, in their order.
ImageUrlParts(attachments) ==
    IF attachments = <<>> THEN <<>>
    ELSE (IF IsImage(Head(attachments).type)
          THEN <<ImageUrlPart(Head(attachments).data)>> ELSE <<>>)
         \o ImageUrlParts(Tail(attachments))

\* history.map(msg => ({ role: msg.role, content: [...] }))
OpenRouterMessage(msg) ==
    [role |-> msg.role,
     content |-> <<TextPart(msg.content)>> \o ImageUrlParts(msg.attachments)]

SynthesizedSystemMessage ==
    [role |-> "system", content |-> <<TextPart(Str(OpenRouterInstruction))>>]

\* A variant that leaves the instruction out when the history has a system
\* message of its own.
OpenRouterMessagesUnlessSystem(history) ==
    (IF \E i \in 1..Len(history) : history[i].role = "system"
     THEN <<>> ELSE <<SynthesizedSystemMessage>>)
    \o [i \in 1..Len(history) |-> OpenRouterMessage(history[i])]

\* The mapped history with the instruction unshifted in front.
OpenRouterMessages(history) ==
    <<SynthesizedSystemMessage>>
    \o [i \in 1..Len(history) |-> OpenRouterMessage(history[i])]

OpenRouterRequest(history, settings) ==
    [url |-> "https://openrouter.ai/api/v1/chat/completions",
     method |-> "POST",
     headers |-> [Authorization |-> "Bearer " \o settings.openRouterApiKey,
                  ContentType |-> "application/json"],
     body |-> [model |-> IF settings.openRouterModel # ""
                         THEN settings.openRouterModel ELSE "google/gemini-flash-1.5",
               messages |-> OpenRouterMessages(history)]]

\* A variant that sends the token as bearer only.
OpenClawHeadersBearerOnly(settings) ==
    IF settings.openClawAuthToken # ""
    THEN [ContentType |-> "application/json",
          Authorization |-> "Bearer " \o settings.openClawAuthToken]
    ELSE [ContentType |-> "application/json"]

\* The headers of the agent call: the two token headers only with a token.
OpenClawHeaders(settings) ==
    IF settings.openClawAuthToken # ""
    THEN [ContentType |-> "application/json",
          Authorization |-> "Bearer " \o settings.openClawAuthToken,
          XApiKey |-> settings.openClawAuthToken]
    ELSE [ContentType |-> "application/json"]

\* The payload; random is Math.floor(Math.random() * 100000).
OpenClawPayload(history, settings, currentAttachments, random) ==
    [message |-> history[Len(history)].content,
     agentId |-> settings.openClawAgentId,
     sessionId |-> "session-" \o ToString(random),
     history |-> [i \in 1..(Len(history) - 1) |->
                    [role |-> history[i].role, content |-> history[i].content]],
     files |-> [i \in 1..Len(currentAttachments) |->
                  [name |-> currentAttachments[i].name,
                   type |-> currentAttachments[i].type,
                   data |-> currentAttachments[i].data]]]

OpenClawRequest(history, settings, currentAttachments, random) ==
    [url |-> settings.openClawBaseUrl,
     method |-> "POST",
     headers |-> OpenClawHeaders(settings),
     body |-> OpenClawPayload(history, settings, currentAttachments, random)]

NothingSent == [done |-> TRUE, sent |-> FALSE, request |-> [url |-> ""]]

Sent(request) == [done |-> TRUE, sent |-> TRUE, request |-> request]

\* What getAIResponse hands to fetch: nothing when the adapter throws before
\* its fetch, and nothing this section describes for another provider.
RequestOf(history, settings, attachments, random) ==
    CASE settings.apiProvider = "openrouter" ->
            IF settings.openRouterApiKey = "" THEN NothingSent
            ELSE Sent(OpenRouterRequest(history, settings))
      [] settings.apiProvider = "openclaw" ->
            IF settings.openClawBaseUrl = "" \/ Len(history) = 0 THEN NothingSent
            ELSE Sent(OpenClawRequest(history, settings, attachments, random))
      [] OTHER -> NothingSent

(***************************************************************************)
(* The state of a page session.                                            *)
(***************************************************************************)
VARIABLES
    phase,          \* "boot" before the mount effects have run, then "ready"
    history,        \* useState<Message[]>
    isLoading,      \* the busy flag
    settings,       \* the settings in effect
    tempSettings,   \* the copy the settings modal edits
    isListening,
    recognition,    \* recognitionRef.current and the render its onresult closes over
    mediaRecorder,  \* mediaRecorderRef.current and the render its onstop closes over
    calls,          \* every handleSend run so far, with its getAIResponse call
    edits,          \* how many changes the settings modal has made
    micUses,        \* how many times the microphone has been started
    now,            \* Date.now(), in milliseconds since the page was loaded
    probe,          \* adapter check: the arguments of one getAIResponse call
    reply           \* adapter check: what that call returned

vars == <<phase, history, isLoading, settings, tempSettings,
          isListening, recognition, mediaRecorder, calls, edits, micUses, now,
          probe, reply>>

session == <<phase, history, isLoading, settings, tempSettings,
             isListening, recognition, mediaRecorder, calls, edits, micUses, now>>

\* Bounds of the explored sessions.
MaxSends == 2

MaxEdits == 1

MaxMicUses == 1

MaxClock == 1

\* The network's answer to a request that has not been answered yet.
NoAnswer ==
    [kind |-> "none", shape |-> "", status |-> "", text |-> Undef, content |-> Undef,
     errmsg |-> "", body |-> [k \in {BodyKeys[i] : i \in 1..Len(BodyKeys)} |-> Undef]]

NoBody == NoAnswer.body

Body(response, message, text, output, thoughts, steps, reasoning) ==
    [response |-> response, message |-> message, text |-> text, output |-> output,
     thoughts |-> thoughts, steps |-> steps, reasoning |-> reasoning]

NetworkError == [NoAnswer EXCEPT !.kind = "net"]

\* A response that is not ok: response.status and response.statusText, and
\* what its body holds.
HttpError(shape, errmsg) ==
    [NoAnswer EXCEPT !.kind = "http", !.shape = shape, !.errmsg = errmsg,
                     !.status = "500 Internal Server Error"]

GeminiText(text) == [NoAnswer EXCEPT !.kind = "ok", !.text = text]

OpenRouterBody(shape, content) ==
    [NoAnswer EXCEPT !.kind = "ok", !.shape = shape, !.content = content]

OpenClawBody(shape, body) ==
    [NoAnswer EXCEPT !.kind = "ok", !.shape = shape, !.body = body]

\* What the network may answer to a call of a session.
SessionAnswers(apiProvider) ==
    CASE apiProvider = "gemini" -> {NetworkError, GeminiText(Str("G"))}
      [] apiProvider = "openrouter" ->
            {HttpError("msg", "Rate limited"), OpenRouterBody("content", Str("O"))}
      [] apiProvider = "openclaw" ->
            {NetworkError,
             OpenClawBody("object", Body(Str("R"), Undef, Undef, Undef, Undef, Undef, Undef)),
             OpenClawBody("object", Body(Num("42"), Undef, Undef, Undef, Undef, Undef, Undef))}
      [] OTHER -> {NetworkError}

NoOut == Err("", <<>>)

NoRecognition ==
    [exists |-> FALSE, active |-> FALSE, resulted |-> FALSE,
     history |-> <<>>, settings |-> DEFAULT_SETTINGS]

NoRecorder == [state |-> "null", history |-> <<>>, settings |-> DEFAULT_SETTINGS]

NoProbe == [history |-> <<>>, settings |-> DEFAULT_SETTINGS, raw |-> NoAnswer]

InitSession ==
    /\ phase = "boot"
    /\ history = <<>>
    /\ isLoading = FALSE
    /\ settings = DEFAULT_SETTINGS
    /\ tempSettings = DEFAULT_SETTINGS
    /\ isListening = FALSE
    /\ recognition = NoRecognition
    /\ mediaRecorder = NoRecorder
    /\ calls = <<>>
    /\ edits = 0
    /\ micUses = 0
    /\ now = 0

Init ==
    /\ InitSession
    /\ probe = NoProbe
    /\ reply = NoOut

(***************************************************************************)
(* The handlers of App.tsx and ChatUI.tsx.                                 *)
(***************************************************************************)
\* What the page is loaded with.
NoParams == [provider |-> "", baseUrl |-> "", agentId |-> "", authToken |-> "", model |-> ""]

SessionStored ==
    {[kind |-> "none", fields |-> [activeAvatarId |-> "robot"]],
     [kind |-> "bad", fields |-> [activeAvatarId |-> "robot"]],
     [kind |-> "json", fields |-> [apiProvider |-> "openrouter", openRouterApiKey |-> "sk"]],
     [kind |-> "json", fields |-> [sttProvider |-> "local_whisper"]]}

SessionParams ==
    {NoParams,
     [NoParams EXCEPT !.provider = "openclaw", !.baseUrl = "http%3A%2F%2Fx"],
     [NoParams EXCEPT !.provider = "custom-agent", !.baseUrl = "http%3A%2F%2Fx"]}

\* What the user types, attaches and says.
TypedInputs ==
    {[text |-> "", attachments |-> <<>>],
     [text |-> "hi", attachments |-> <<>>],
     [text |-> "", attachments |-> <<"cat.png">>]}

Transcripts == {"", "yo"}

Transcriptions == {"<failed>", "", "memo"}

\* The recognition object the speech effect creates in a render that holds
\* history h and settings s: its onresult calls that render's handleSend.
NewRecognition(h, s) ==
    [exists |-> TRUE, active |-> FALSE, resulted |-> FALSE, history |-> h, settings |-> s]

\* The mount effects: the settings load, then the speech-recognition effect
\* of the first render (settings.sttProvider is 'native' there).
Mount(stored, params) ==
    /\ phase = "boot"
    /\ LET r == LoadSettings(stored, params)
       IN /\ history' = history \o r.notice
          /\ settings' = r.settings
          /\ tempSettings' = r.settings
    /\ recognition' = NewRecognition(history, settings)
    /\ phase' = "ready"
    /\ UNCHANGED <<isLoading, isListening, mediaRecorder, calls, edits, micUses, now>>
    /\ UNCHANGED <<probe, reply>>

\* The messages the continuation of handleSend appends once the call has
\* settled with out: the try block's assistant message, and the catch
\* block's error message for whatever the try block threw.
Outcome(out) ==
    IF out.ok
    THEN <<WithId(AssistantMsg(out), now + 1)>>
         \o (IF speakAndAnimateThrows(out.content)
             THEN <<WithId(ErrorMsg(ReplaceNotAFunction), now)>> ELSE <<>>)
    ELSE <<WithId(ErrorMsg(out.err), now)>>

\* App.handleSend(text, attachments) of a render that holds history h and
\* settings s, up to its await: the values it sets and the call it makes.
\* A call whose adapter throws before any fetch settles in the same task.
handleSend(h, s, text, attachments, src) ==
    LET newUserMsg == WithId(UserMsg(text, attachments), now)
        newHistory == Append(h, newUserMsg)
        busy == TRUE
        started == getAIResponse(newHistory, s, NoAnswer)
        settled == started.fetches = <<>>
    IN [history |-> IF settled THEN newHistory \o Outcome(started) ELSE newHistory,
        isLoading |-> IF settled THEN FALSE ELSE busy,
        call |-> [src |-> src, history |-> newHistory, settings |-> s,
                  busy |-> busy,
                  status |-> IF settled THEN "done" ELSE "inflight",
                  adapters |-> started.adapters, fetches |-> started.fetches,
                  out |-> IF settled THEN started ELSE NoOut,
                  appended |-> IF settled THEN Outcome(started) ELSE <<>>]]

\* ChatUI.handleSend: the send button or Enter, with the latest render's
\* onSend.  Nothing happens on empty input or while isLoading.
TypedSend(input) ==
    /\ phase = "ready"
    /\ Len(calls) < MaxSends
    /\ (input.text # "" \/ Len(input.attachments) > 0) /\ ~isLoading
    /\ LET r == handleSend(history, settings, input.text, input.attachments, "typed")
       IN /\ history' = r.history
          /\ isLoading' = r.isLoading
          /\ calls' = Append(calls, r.call)
    /\ UNCHANGED <<phase, settings, tempSettings, isListening,
                   recognition, mediaRecorder, edits, micUses, now>>
    /\ UNCHANGED <<probe, reply>>

\* recognition.onresult
SpeechResult(transcript) ==
    /\ recognition.active /\ ~recognition.resulted
    /\ Len(calls) < MaxSends
    /\ recognition' = [recognition EXCEPT !.resulted = TRUE]
    /\ IF transcript # ""
       THEN LET r == handleSend(recognition.history, recognition.settings,
                                transcript, <<>>, "speech")
            IN /\ history' = r.history
               /\ isLoading' = r.isLoading
               /\ calls' = Append(calls, r.call)
       ELSE UNCHANGED <<history, isLoading, calls>>
    /\ UNCHANGED <<phase, settings, tempSettings, isListening,
                   mediaRecorder, edits, micUses, now>>
    /\ UNCHANGED <<probe, reply>>

\* recognition.onend / recognition.onerror
SpeechEnd ==
    /\ recognition.active
    /\ recognition' = [recognition EXCEPT !.active = FALSE]
    /\ isListening' = FALSE
    /\ UNCHANGED <<phase, history, isLoading, settings, tempSettings,
                   mediaRecorder, calls, edits, micUses, now>>
    /\ UNCHANGED <<probe, reply>>

\* handleMicToggle, not listening: start the recognition, or a recorder
\* whose onstop closes over this render.
MicStart ==
    /\ phase = "ready" /\ ~isListening
    /\ micUses < MaxMicUses
    /\ IF settings.sttProvider = "native"
       THEN /\ ~recognition.active
            /\ recognition' = [recognition EXCEPT !.active = TRUE, !.resulted = FALSE]
            /\ UNCHANGED mediaRecorder
       ELSE /\ mediaRecorder.state \in {"null", "inactive"}
            /\ mediaRecorder' = [state |-> "recording", history |-> history,
                                 settings |-> settings]
            /\ UNCHANGED recognition
    /\ isListening' = TRUE
    /\ micUses' = micUses + 1
    /\ UNCHANGED <<phase, history, isLoading, settings, tempSettings,
                   calls, edits, now>>
    /\ UNCHANGED <<probe, reply>>

\* handleMicToggle, listening, local whisper: stop the recorder.  (With the
\* native provider it calls recognition.stop(), which changes nothing here:
\* onend follows.)
MicStop ==
    /\ phase = "ready" /\ isListening
    /\ settings.sttProvider = "local_whisper"
    /\ mediaRecorder.state \in {"null", "recording"}
    /\ mediaRecorder' = IF mediaRecorder.state = "recording"
                        THEN [mediaRecorder EXCEPT !.state = "stopped"]
                        ELSE mediaRecorder
    /\ isListening' = FALSE
    /\ UNCHANGED <<phase, history, isLoading, settings, tempSettings,
                   recognition, calls, edits, micUses, now>>
    /\ UNCHANGED <<probe, reply>>

\* mediaRecorder.onstop, up to its await of transcribeAudio
RecorderStop ==
    /\ mediaRecorder.state = "stopped"
    /\ isLoading' = TRUE
    /\ mediaRecorder' = [mediaRecorder EXCEPT !.state = "transcribing"]
    /\ UNCHANGED <<phase, history, settings, tempSettings, isListening,
                   recognition, calls, edits, micUses, now>>
    /\ UNCHANGED <<probe, reply>>

\* mediaRecorder.onstop, after transcribeAudio has settled: handleSend is
\* started and not awaited, and the finally block clears isLoading.
TranscribeDone(text) ==
    /\ mediaRecorder.state = "transcribing"
    /\ Len(calls) < MaxSends
    /\ mediaRecorder' = [mediaRecorder EXCEPT !.state = "inactive"]
    /\ isLoading' = FALSE
    /\ IF text = "<failed>"
       THEN /\ history' = Append(history, WithId(TranscriptionFailedMsg, now))
            /\ UNCHANGED calls
       ELSE IF text # ""
       THEN LET r == handleSend(mediaRecorder.history, mediaRecorder.settings,
                                text, <<>>, "whisper")
            IN /\ history' = r.history
               /\ calls' = Append(calls, r.call)
       ELSE UNCHANGED <<history, calls>>
    /\ UNCHANGED <<phase, settings, tempSettings, isListening,
                   recognition, edits, micUses, now>>
    /\ UNCHANGED <<probe, reply>>

\* A variant without the finally: the flag is cleared on success only.
RespondNoFinally(i, raw) ==
    /\ calls[i].status = "inflight"
    /\ LET c == calls[i]
           out == getAIResponse(c.history, c.settings, raw)
       IN /\ history' = history \o Outcome(out)
          /\ calls' = [calls EXCEPT ![i] =
                          [c EXCEPT !.status = "done", !.out = out,
                                    !.adapters = out.adapters, !.fetches = out.fetches,
                                    !.appended = Outcome(out)]]
          /\ isLoading' = IF out.ok THEN FALSE ELSE isLoading
    /\ UNCHANGED <<phase, settings, tempSettings, isListening,
                   recognition, mediaRecorder, edits, micUses, now>>
    /\ UNCHANGED <<probe, reply>>

\* The continuation of handleSend after `await getAIResponse(...)`: the
\* network has answered call i with raw.
Respond(i, raw) ==
    /\ calls[i].status = "inflight"
    /\ LET c == calls[i]
           out == getAIResponse(c.history, c.settings, raw)
       IN /\ history' = history \o Outcome(out)
          /\ calls' = [calls EXCEPT ![i] =
                          [c EXCEPT !.status = "done", !.out = out,
                                    !.adapters = out.adapters, !.fetches = out.fetches,
                                    !.appended = Outcome(out)]]
    /\ isLoading' = FALSE
    /\ UNCHANGED <<phase, settings, tempSettings, isListening,
                   recognition, mediaRecorder, edits, micUses, now>>
    /\ UNCHANGED <<probe, reply>>

\* The fields the settings modal edits here, with the value chosen.
EditableFields ==
    {<<"apiProvider", "openrouter">>, <<"sttProvider", "native">>,
     <<"sttProvider", "local_whisper">>}

\* A variant that writes the edited field into the settings in effect too.
EditSettingsLive(field, value) ==
    /\ phase = "ready"
    /\ edits < MaxEdits
    /\ tempSettings[field] # value
    /\ tempSettings' = [tempSettings EXCEPT ![field] = value]
    /\ settings' = [settings EXCEPT ![field] = value]
    /\ edits' = edits + 1
    /\ UNCHANGED <<phase, history, isLoading, isListening,
                   recognition, mediaRecorder, calls, micUses, now>>
    /\ UNCHANGED <<probe, reply>>

\* setTempSettings({...tempSettings, [field]: value})
EditSettings(field, value) ==
    /\ phase = "ready"
    /\ edits < MaxEdits
    /\ tempSettings[field] # value
    /\ tempSettings' = [tempSettings EXCEPT ![field] = value]
    /\ edits' = edits + 1
    /\ UNCHANGED <<phase, history, isLoading, settings, isListening,
                   recognition, mediaRecorder, calls, micUses, now>>
    /\ UNCHANGED <<probe, reply>>

\* The ids of AVATAR_PRESETS.
AvatarIds == {"robot", "vrm_girl"}

\* handleAvatarSelect(id), from the avatar grid of the settings modal: the
\* settings in effect and the edited copy both take the id, at once.
handleAvatarSelect(id) ==
    /\ phase = "ready"
    /\ edits < MaxEdits
    /\ settings.activeAvatarId # id
    /\ settings' = [settings EXCEPT !.activeAvatarId = id]
    /\ tempSettings' = [tempSettings EXCEPT !.activeAvatarId = id]
    /\ edits' = edits + 1
    /\ UNCHANGED <<phase, history, isLoading, isListening,
                   recognition, mediaRecorder, calls, micUses, now>>
    /\ UNCHANGED <<probe, reply>>

\* saveSettings, and the speech effect of the render that follows when
\* settings.sttProvider has changed.
SaveSettings ==
    /\ phase = "ready"
    /\ settings' = tempSettings
    /\ recognition' = IF tempSettings.sttProvider # settings.sttProvider
                         /\ tempSettings.sttProvider = "native"
                      THEN NewRecognition(history, tempSettings)
                      ELSE recognition
    /\ UNCHANGED <<phase, history, isLoading, tempSettings, isListening,
                   mediaRecorder, calls, edits, micUses, now>>
    /\ UNCHANGED <<probe, reply>>

\* A millisecond passes.
Tick ==
    /\ now < MaxClock
    /\ now' = now + 1
    /\ UNCHANGED <<phase, history, isLoading, settings, tempSettings, isListening,
                   recognition, mediaRecorder, calls, edits, micUses>>
    /\ UNCHANGED <<probe, reply>>

Next ==
    \/ \E stored \in SessionStored, params \in SessionParams : Mount(stored, params)
    \/ \E input \in TypedInputs : TypedSend(input)
    \/ \E transcript \in Transcripts : SpeechResult(transcript)
    \/ SpeechEnd
    \/ MicStart
    \/ MicStop
    \/ RecorderStop
    \/ \E text \in Transcriptions : TranscribeDone(text)
    \/ \E i \in 1..Len(calls) : \E raw \in SessionAnswers(calls[i].settings.apiProvider) :
          Respond(i, raw)
    \/ \E e \in EditableFields : EditSettings(e[1], e[2])
    \/ \E id \in AvatarIds : handleAvatarSelect(id)
    \/ SaveSettings

Spec == Init /\ [][Next]_vars

(***************************************************************************)
(* The session with the wall clock running: Date.now() may or may not have *)
(* advanced between any two steps.                                         *)
(***************************************************************************)
NextClock == Tick \/ Next

SpecClock == Init /\ [][NextClock]_vars

(***************************************************************************)
(* The page load on its own: the mount effects on every combination of     *)
(* persisted blob and URL query below.                                     *)
(***************************************************************************)
StartupStored ==
    SessionStored
    \cup {[kind |-> "json", fields |-> [geminiModel |-> "gemini-2.5-pro"]],
          [kind |-> "json", fields |-> [apiProvider |-> "azure"]]}

StartupParams ==
    {[provider |-> p, baseUrl |-> u, agentId |-> a, authToken |-> k, model |-> m] :
        p \in {"", "gemini", "openrouter", "openclaw", "custom-agent"},
        u \in {"", "http%3A%2F%2Fx", "http%3A%2F%2Fx%2F50%25", "http%3A%2F%2Fx%2F%2541"},
        a \in {"", "agent-7"}, k \in {"", "tok"}, m \in {"", "m-1"}}

NextStartup == \E stored \in StartupStored, params \in StartupParams : Mount(stored, params)

SpecStartup == Init /\ [][NextStartup]_vars

(***************************************************************************)
(* The adapters on their own: one getAIResponse call on every combination  *)
(* of provider configuration, history and network answer below.            *)
(***************************************************************************)
ProbeHistories == {<<>>, <<UserMsg("hi", <<>>)>>}

ProbeSettings ==
    {DEFAULT_SETTINGS, [DEFAULT_SETTINGS EXCEPT !.apiProvider = "claude"]}
    \cup {[DEFAULT_SETTINGS EXCEPT !.apiProvider = "openrouter", !.openRouterApiKey = k] :
            k \in {"", "sk"}}
    \cup {[DEFAULT_SETTINGS EXCEPT !.apiProvider = "openclaw", !.openClawBaseUrl = u] :
            u \in {"", "http://x"}}

\* The values the fields of an agent's reply object take.
ResponseValues == {Undef, Str(""), Str("R"), Num("42")}

MessageValues == {Undef, Str("M"), Num("0")}

TextValues == {Undef, Str(""), Str("T")}

OutputValues == {Undef, Str("O"), Null}

ThoughtsValues == {Undef, Arr(<<>>), Arr(<<Str("t1"), Num("7")>>), Str("plan")}

StepsValues ==
    {Undef, Arr(<<>>), Arr(<<Num("1"), Str("go")>>),
     Arr(<<Obj("{\"tool\":\"x\"}"), Null>>), Str("s")}

ReasoningValues == {Undef, Str(""), Str("why"), Num("0"), Obj("{\"because\":1}")}

\* The answers other than a reply object.
ProbeAnswers(apiProvider) ==
    CASE apiProvider = "gemini" ->
            {NetworkError, HttpError("", "API key not valid"),
             GeminiText(Undef), GeminiText(Str("")), GeminiText(Str("G"))}
      [] apiProvider = "openrouter" ->
            {NetworkError}
            \cup {HttpError(sh, "") : sh \in {"badjson", "null", "noerror", "nomsg", "msg"}}
            \cup {HttpError("msg", "Rate limited")}
            \cup {OpenRouterBody(sh, Undef) :
                    sh \in {"badjson", "null", "nochoices", "empty", "nomessage", "nocontent"}}
            \cup {OpenRouterBody("content", c) :
                    c \in {Null, Str(""), Str("O"), Arr(<<Obj("{\"type\":\"text\"}")>>)}}
      [] apiProvider = "openclaw" ->
            {NetworkError, HttpError("", ""),
             [HttpError("", "") EXCEPT !.status = "404 Not Found"],
             OpenClawBody("badjson", NoBody), OpenClawBody("null", NoBody)}
            \cup {[OpenClawBody("value", NoBody) EXCEPT !.content = v] :
                    v \in {Str("hello"), Num("0"), Arr(<<Num("1")>>)}}
      [] OTHER -> {NetworkError}

InitAdapters ==
    /\ InitSession
    /\ reply = NoOut
    /\ \E s \in ProbeSettings, h \in ProbeHistories :
          \/ \E r \in ProbeAnswers(s.apiProvider) :
                probe = [history |-> h, settings |-> s, raw |-> r]
          \/ /\ s.apiProvider = "openclaw"
             /\ \E r \in ResponseValues, m \in MessageValues, tx \in TextValues,
                   o \in OutputValues, th \in ThoughtsValues, st \in StepsValues,
                   re \in ReasoningValues :
                   probe = [history |-> h, settings |-> s,
                            raw |-> OpenClawBody("object", Body(r, m, tx, o, th, st, re))]

\* The probed call returns.
Answer ==
    /\ reply = NoOut
    /\ reply' = getAIResponse(probe.history, probe.settings, probe.raw)
    /\ UNCHANGED probe

NextAdapters == Answer /\ UNCHANGED session

SpecAdapters == InitAdapters /\ [][NextAdapters]_vars

(***************************************************************************)
(* checkOpenClawHealth of aiService.ts.  A URL is the sequence of its      *)
(* "/"-separated segments after the origin, so "http://x/api/chat" is      *)
(* <<"http://x", "api", "chat">> and a trailing slash is a last segment "".*)
(***************************************************************************)
UrlString(path) == [t |-> "str", path |-> path]

NotAString == [t |-> "null", path |-> <<>>]

\* path.replace(/\/chat$/, ''): drops a last segment "chat" that follows a "/".
StripChat(path) ==
    IF Len(path) >= 2 /\ path[Len(path)] = "chat"
    THEN SubSeq(path, 1, Len(path) - 1)
    ELSE path

\* The endpoints in the order they are tried.
HealthEndpoints(baseUrl) ==
    <<Append(StripChat(baseUrl.path), "health"), StripChat(baseUrl.path)>>

\* What fetch(ep) settles with: a rejection or a response with a status.
Rejected == [rejected |-> TRUE, status |-> 0, ok |-> FALSE]

Response(status) ==
    [rejected |-> FALSE, status |-> status, ok |-> status \in 200..299]

HealthReturn(value, probes) ==
    [done |-> TRUE, value |-> value, raised |-> FALSE, probes |-> probes]

\* An exception leaving the code that raised it.
HealthThrow(probes) ==
    [done |-> TRUE, value |-> FALSE, raised |-> TRUE, probes |-> probes]

\* The loop without its inner try/catch: a rejection reaches the outer catch.
RECURSIVE HealthLoopOuterCatchOnly(_, _, _)
HealthLoopOuterCatchOnly(endpoints, net, probes) ==
    IF endpoints = <<>> THEN HealthReturn(FALSE, probes)
    ELSE LET ep == Head(endpoints)
             res == net[ep]
             issued == Append(probes, ep)
         IN  IF res.rejected THEN HealthThrow(issued)
             ELSE IF res.ok THEN HealthReturn(TRUE, issued)
             ELSE HealthLoopOuterCatchOnly(Tail(endpoints), net, issued)

\* for (const ep of endpoints) { try { ... if (res.ok) return true } catch {} }
RECURSIVE HealthLoop(_, _, _)
HealthLoop(endpoints, net, probes) ==
    IF endpoints = <<>> THEN HealthReturn(FALSE, probes)
    ELSE LET ep == Head(endpoints)
             res == net[ep]
             issued == Append(probes, ep)
         IN  IF ~res.rejected /\ res.ok THEN HealthReturn(TRUE, issued)
             ELSE HealthLoop(Tail(endpoints), net, issued)

\* The body of the outer try: baseUrl.replace throws on a value that is no string.
HealthTry(baseUrl, net) ==
    IF baseUrl.t # "str" THEN HealthThrow(<<>>)
    ELSE HealthLoop(HealthEndpoints(baseUrl), net, <<>>)

\* try { ... } catch (e) { return false }
checkOpenClawHealth(baseUrl, net) ==
    IF HealthTry(baseUrl, net).raised
    THEN HealthReturn(FALSE, HealthTry(baseUrl, net).probes)
    ELSE HealthTry(baseUrl, net)

HealthBaseUrls ==
    {UrlString(p) : p \in {<<"">>, <<"http://x">>, <<"http://x", "chat">>,
                           <<"http://x", "chat", "">>, <<"http://x", "api", "chat">>,
                           <<"http://x", "chat", "chat">>, <<"http://x", "mychat">>}}
    \cup {NotAString}

HealthStatuses == {200, 204, 404, 500}

FetchOutcomes == {Rejected} \cup {Response(s) : s \in HealthStatuses}

NoHealth == [done |-> FALSE, value |-> FALSE, raised |-> FALSE, probes |-> <<>>]

\* The endpoints a call on baseUrl can reach.
ProbedEndpoints(baseUrl) ==
    IF baseUrl.t # "str" THEN {}
    ELSE {HealthEndpoints(baseUrl)[k] : k \in 1..2}

InitHealth ==
    /\ InitSession
    /\ reply = NoHealth
    /\ \E baseUrl \in HealthBaseUrls :
          \E net \in [ProbedEndpoints(baseUrl) -> FetchOutcomes] :
             probe = [baseUrl |-> baseUrl, net |-> net]

\* checkConnection: the call settles.
CheckHealth ==
    /\ ~reply.done
    /\ reply' = checkOpenClawHealth(probe.baseUrl, probe.net)
    /\ UNCHANGED probe

NextHealth == CheckHealth /\ UNCHANGED session

SpecHealth == InitHealth /\ [][NextHealth]_vars

(***************************************************************************)
(* fetchOpenClawAgents of aiService.ts.  The parsed body of the /agents    *)
(* answer is a JSON value together with its agents property (Undef when    *)
(* the value has none); parsed is FALSE for a body res.json() rejects.     *)
(***************************************************************************)
AgentsData(value, agents) == [parsed |-> TRUE, value |-> value, agents |-> agents]

BadJson == [parsed |-> FALSE, value |-> Undef, agents |-> Undef]

\* The body is the list itself.
BareArray(list) == AgentsData(Arr(list), Undef)

\* The body is {agents: ...}.
Envelope(agents) == AgentsData(Obj("{\"agents\":" \o JSONstringify(agents) \o "}"), agents)

\* baseUrl.replace(/\/chat\/?$/, ''): drops a trailing "/chat" or "/chat/".
StripChatSlash(path) ==
    IF Len(path) >= 2 /\ path[Len(path)] = "chat"
    THEN SubSeq(path, 1, Len(path) - 1)
    ELSE IF Len(path) >= 3 /\ path[Len(path)] = "" /\ path[Len(path) - 1] = "chat"
    THEN SubSeq(path, 1, Len(path) - 2)
    ELSE path

\* The GET the discovery issues.
AgentsRequest(baseUrl, token) ==
    [url |-> Append(StripChatSlash(baseUrl.path), "agents"),
     contentType |-> "application/json",
     authorization |-> IF token # "" THEN "Bearer " \o token ELSE ""]

AgentsReturn(value, request) ==
    [done |-> TRUE, raised |-> FALSE, value |-> value, request |-> request]

AgentsThrow(request) ==
    [done |-> TRUE, raised |-> TRUE, value |-> Undef, request |-> request]

NoRequest == [url |-> <<>>, contentType |-> "", authorization |-> ""]

\* return data.agents || [], read off every body including an array.
AgentsTryEnvelopeOnly(baseUrl, token, ans) ==
    IF baseUrl.t # "str" THEN AgentsThrow(NoRequest)
    ELSE IF ans.kind # "ok" THEN AgentsThrow(AgentsRequest(baseUrl, token))
    ELSE IF ~ans.data.parsed THEN AgentsThrow(AgentsRequest(baseUrl, token))
    ELSE IF ans.data.value.t = "null" THEN AgentsThrow(AgentsRequest(baseUrl, token))
    ELSE IF Truthy(ans.data.agents)
    THEN AgentsReturn(ans.data.agents, AgentsRequest(baseUrl, token))
    ELSE AgentsReturn(Arr(<<>>), AgentsRequest(baseUrl, token))

\* The body of the try: a rejected fetch, a status that is not ok, a body
\* that is no JSON and a property read on null all throw.
AgentsTry(baseUrl, token, ans) ==
    IF baseUrl.t # "str" THEN AgentsThrow(NoRequest)
    ELSE IF ans.kind # "ok" THEN AgentsThrow(AgentsRequest(baseUrl, token))
    ELSE IF ~ans.data.parsed THEN AgentsThrow(AgentsRequest(baseUrl, token))
    ELSE IF IsArray(ans.data.value)
    THEN AgentsReturn(ans.data.value, AgentsRequest(baseUrl, token))
    ELSE IF ans.data.value.t = "null" THEN AgentsThrow(AgentsRequest(baseUrl, token))
    ELSE IF Truthy(ans.data.agents)
    THEN AgentsReturn(ans.data.agents, AgentsRequest(baseUrl, token))
    ELSE AgentsReturn(Arr(<<>>), AgentsRequest(baseUrl, token))

\* try { ... } catch (e) { return [] }
fetchOpenClawAgents(baseUrl, token, ans) ==
    IF AgentsTry(baseUrl, token, ans).raised
    THEN AgentsReturn(Arr(<<>>), AgentsTry(baseUrl, token, ans).request)
    ELSE AgentsTry(baseUrl, token, ans)

Agent(id) == Obj("{\"id\":\"" \o id \o "\",\"name\":\"" \o id \o "\"}")

AgentLists == {<<>>, <<Agent("a1")>>, <<Agent("a1"), Agent("a2")>>, <<Agent("a2"), Agent("a1")>>}

\* What the agent server may answer to GET /agents.
AgentsAnswers ==
    {[kind |-> "net", data |-> BadJson]}
    \cup {[kind |-> "http", data |-> d] : d \in {BadJson, BareArray(<<Agent("a1")>>)}}
    \cup {[kind |-> "ok", data |-> d] :
            d \in {BadJson, AgentsData(Null, Undef), AgentsData(Str("ok"), Undef),
                   AgentsData(Obj("{}"), Undef), Envelope(Null), Envelope(Str("none"))}
                  \cup {BareArray(l) : l \in AgentLists}
                  \cup {Envelope(Arr(l)) : l \in AgentLists}}

\* discoverAgents is called with the base URL and the token being edited.
InitAgents ==
    /\ InitSession
    /\ reply = [done |-> FALSE, raised |-> FALSE, value |-> Undef, request |-> NoRequest]
    /\ \E path \in {<<"http://x">>, <<"http://x", "chat">>, <<"http://x", "chat", "">>,
                     <<"http://x", "api", "chat">>},
          isString \in BOOLEAN, token \in {"", "tok"}, ans \in AgentsAnswers :
          probe = [baseUrl |-> IF isString THEN UrlString(path) ELSE NotAString,
                   token |-> token, ans |-> ans]

\* discoverAgents: the call settles.
DiscoverAgents ==
    /\ ~reply.done
    /\ reply' = fetchOpenClawAgents(probe.baseUrl, probe.token, probe.ans)
    /\ UNCHANGED <<probe, session>>

SpecAgents == InitAgents /\ [][DiscoverAgents]_vars

(***************************************************************************)
(* fetchOpenRouterModels of aiService.ts.  A model name is the sequence of *)
(* its characters.  String.prototype.localeCompare orders by the host's    *)
(* collation: letters first without regard to case, and between names that *)
(* differ in case only, the case the host locale puts first (caseFirst).   *)
(***************************************************************************)
NameChars == {"A", "B", "Z", "a", "b", "z"}

\* The UTF-16 code unit of a character.
CodeUnit(c) ==
    CASE c = "A" -> 65 [] c = "B" -> 66 [] c = "Z" -> 90
      [] c = "a" -> 97 [] c = "b" -> 98 [] c = "z" -> 122

\* The primary collation weight of a character: its letter.
Letter(c) ==
    CASE c \in {"A", "a"} -> 1 [] c \in {"B", "b"} -> 2 [] c \in {"Z", "z"} -> 26

RECURSIVE CompareBy(_, _, _, _)
\* -1, 0 or 1: the order of x and y from position i on under the weights w,
\* a proper prefix before its extensions.
CompareBy(w, x, y, i) ==
    IF i > Len(x) /\ i > Len(y) THEN 0
    ELSE IF i > Len(x) THEN -1
    ELSE IF i > Len(y) THEN 1
    ELSE IF w[x[i]] < w[y[i]] THEN -1
    ELSE IF w[x[i]] > w[y[i]] THEN 1
    ELSE CompareBy(w, x, y, i + 1)

\* Comparison by code units: every capital before every small letter.
CodeUnitCompare(x, y, caseFirst) ==
    CompareBy([c \in NameChars |-> CodeUnit(c)], x, y, 1)

\* x.localeCompare(y) on a host whose locale puts caseFirst first.
localeCompare(x, y, caseFirst) ==
    IF CompareBy([c \in NameChars |-> Letter(c)], x, y, 1) # 0
    THEN CompareBy([c \in NameChars |-> Letter(c)], x, y, 1)
    ELSE CompareBy([c \in NameChars |->
                      IF (c \in {"A", "B", "Z"}) = (caseFirst = "upper") THEN 0 ELSE 1], x, y, 1)

RECURSIVE InsertModelByCodeUnit(_, _, _)
\* The insertion under a comparator that compares code units.
InsertModelByCodeUnit(sorted, m, caseFirst) ==
    IF sorted = <<>> THEN <<m>>
    ELSE IF CodeUnitCompare(sorted[Len(sorted)].name, m.name, caseFirst) <= 0
    THEN Append(sorted, m)
    ELSE Append(InsertModelByCodeUnit(SubSeq(sorted, 1, Len(sorted) - 1), m, caseFirst),
                sorted[Len(sorted)])

RECURSIVE InsertModel(_, _, _)
\* m placed behind every model of the sorted list that does not follow it.
InsertModel(sorted, m, caseFirst) ==
    IF sorted = <<>> THEN <<m>>
    ELSE IF localeCompare(sorted[Len(sorted)].name, m.name, caseFirst) <= 0
    THEN Append(sorted, m)
    ELSE Append(InsertModel(SubSeq(sorted, 1, Len(sorted) - 1), m, caseFirst),
                sorted[Len(sorted)])

RECURSIVE SortModels(_, _)
\* data.data.sort((a, b) => a.name.localeCompare(b.name)): a stable sort.
SortModels(models, caseFirst) ==
    IF models = <<>> THEN <<>>
    ELSE InsertModel(SortModels(SubSeq(models, 1, Len(models) - 1), caseFirst),
                     models[Len(models)], caseFirst)

\* .map(m => ({ id: m.id, name: m.name }))
IdAndName(models) == [i \in 1..Len(models) |-> [id |-> models[i].id, name |-> models[i].name]]

ModelsReturn(value) == [done |-> TRUE, raised |-> FALSE, value |-> value]

ModelsThrow == [done |-> TRUE, raised |-> TRUE, value |-> <<>>]

\* The body of the try: a rejected fetch, a status that is not ok, a body
\* that is no JSON and a body without a data array all throw.
ModelsTry(ans, caseFirst) ==
    IF ans.kind # "ok" THEN ModelsThrow
    ELSE IF ans.shape # "catalogue" THEN ModelsThrow
    ELSE ModelsReturn(IdAndName(SortModels(ans.models, caseFirst)))

\* try { ... } catch (e) { return [] }
fetchOpenRouterModels(ans, caseFirst) ==
    IF ModelsTry(ans, caseFirst).raised THEN ModelsReturn(<<>>)
    ELSE ModelsTry(ans, caseFirst)

MaxModels == 3

ModelNames == {<<"a">>, <<"B">>, <<"b">>, <<"A", "b">>, <<"a", "B">>, <<"Z">>}

\* Catalogues of up to MaxModels models, ids in upstream order; an entry
\* carries more than its id and name.
Catalogues ==
    UNION {{[i \in 1..n |-> [id |-> ToString(i), name |-> names[i], pricing |-> "0.1"]] :
              names \in [1..n -> ModelNames]} : n \in 0..MaxModels}

\* What openrouter.ai may answer to GET /models: shape says what the body
\* holds in place of {data: [...]}.
ModelsAnswers ==
    {[kind |-> "net", shape |-> "", models |-> <<>>]}
    \cup {[kind |-> "http", shape |-> sh, models |-> <<>>] : sh \in {"badjson", "catalogue"}}
    \cup {[kind |-> "ok", shape |-> sh, models |-> <<>>] :
            sh \in {"badjson", "null", "nodata", "dataobject"}}
    \cup {[kind |-> "ok", shape |-> "catalogue", models |-> ms] : ms \in Catalogues}

InitModels ==
    /\ InitSession
    /\ reply = [done |-> FALSE, raised |-> FALSE, value |-> <<>>]
    /\ \E ans \in ModelsAnswers, caseFirst \in {"lower", "upper"} :
          probe = [ans |-> ans, caseFirst |-> caseFirst]

\* The settings dialog loads the catalogue: the call settles.
LoadModels ==
    /\ ~reply.done
    /\ reply' = fetchOpenRouterModels(probe.ans, probe.caseFirst)
    /\ UNCHANGED <<probe, session>>

SpecModels == InitModels /\ [][LoadModels]_vars

(***************************************************************************)
(* The request of one call, on every combination of history, settings and *)
(* attachments below.                                                      *)
(***************************************************************************)
MaxHistory == 3

Png == Attachment("cat.png", "image/png", "data:image/png;base64,iVBORw0KGgo=")

Pdf == Attachment("cv.pdf", "application/pdf", "data:application/pdf;base64,JVBERi0=")

Jpeg == Attachment("dog.jpg", "image/jpeg", "data:image/jpeg;base64,/9j/4AAQ")

RequestMessages ==
    {UserMsg("hi", <<>>), UserMsg("look", <<Pdf, Png, Jpeg>>),
     AssistantMsg(Ok(Str("hello"), TRUE, <<"thinking">>, <<>>)),
     AutoConfigMsg("openrouter")}

RequestHistories == UNION {[1..n -> RequestMessages] : n \in 0..MaxHistory}

RequestSettings ==
    {[DEFAULT_SETTINGS EXCEPT !.apiProvider = "openrouter", !.openRouterApiKey = k,
                              !.openRouterModel = m] :
        k \in {"", "sk"}, m \in {"", "anthropic/claude-3-opus"}}
    \cup {[DEFAULT_SETTINGS EXCEPT !.apiProvider = "openclaw", !.openClawBaseUrl = u,
                                   !.openClawAuthToken = k, !.openClawAgentId = a] :
            u \in {"", "http://x/chat"}, k \in {"", "tok"}, a \in {"", "agent-7"}}

InitRequests ==
    /\ InitSession
    /\ reply = [done |-> FALSE, sent |-> FALSE, request |-> [url |-> ""]]
    /\ \E h \in RequestHistories, s \in RequestSettings,
          atts \in {<<>>, <<Png>>, <<Pdf, Png>>}, random \in {0, 99999} :
          probe = [history |-> h, settings |-> s, attachments |-> atts, random |-> random]

\* The adapter has run up to its fetch.
SendRequest ==
    /\ ~reply.done
    /\ reply' = RequestOf(probe.history, probe.settings, probe.attachments, probe.random)
    /\ UNCHANGED <<probe, session>>

SpecRequests == InitRequests /\ [][SendRequest]_vars

(***************************************************************************)
(* Properties of the session.                                              *)
(***************************************************************************)
IsPrefix(a, b) == Len(a) <= Len(b) /\ SubSeq(b, 1, Len(a)) = a

InFlight == {i \in 1..Len(calls) : calls[i].status = "inflight"}

Done == {i \in 1..Len(calls) : calls[i].status = "done"}

\* C2: at most one provider call is in flight.
C2_AtMostOneInFlight == Cardinality(InFlight) <= 1

\* A step in which a send is attempted: the chat input, a speech
\* recognition result or a whisper transcription hands a text to handleSend.
SendAttempt ==
    \/ \E input \in TypedInputs : TypedSend(input)
    \/ \E transcript \in Transcripts \ {""} : SpeechResult(transcript)
    \/ \E text \in Transcriptions \ {"", "<failed>"} : TranscribeDone(text)

\* C3: a send attempted while a turn is in flight and the busy flag is set
\* is ignored: it leaves the history as it is and starts no provider call.
C3_BusySendIgnored ==
    [][(isLoading /\ InFlight # {} /\ SendAttempt)
          => (history' = history /\ calls' = calls)]_vars

\* C4: the history is append-only: every step leaves the history it found
\* as a prefix of the history it leaves.
C4_AppendOnly == [][IsPrefix(history, history')]_vars

\* C5: every turn has put its user message in the history it hands to the
\* provider call, and a turn whose call has completed has appended exactly
\* one message: the assistant message with the response's content and
\* thoughts on success, the system message "Error: <cause>" on failure.
C5_OneOutcomePerTurn ==
    \A i \in 1..Len(calls) :
        LET c == calls[i]
        IN /\ Len(c.history) >= 1
           /\ c.history[Len(c.history)].role = "user"
           /\ c.status = "done" =>
                 /\ Len(c.appended) = 1
                 /\ c.out.ok => [c.appended[1] EXCEPT !.id = ""] = AssistantMsg(c.out)
                 /\ ~c.out.ok => [c.appended[1] EXCEPT !.id = ""] = ErrorMsg(c.out.err)

\* The parts of C6: the flag as handleSend left it at dispatch, the flag
\* once nothing is pending, and the flag after the step that completes a
\* call.
C6_FlagSetAtDispatch == \A i \in 1..Len(calls) : calls[i].busy

C6_FlagClearedWhenIdle ==
    (InFlight = {} /\ mediaRecorder.state # "transcribing") => ~isLoading

C6_FlagClearedOnCompletion ==
    \A i \in 1..Len(calls) :
        (calls[i].status = "inflight" /\ calls'[i].status = "done") => ~isLoading'

\* C6: handleSend has set the busy flag when it dispatches the call, the
\* step in which a call completes leaves the flag cleared whether the call
\* succeeded or failed, and the flag is not left set once nothing is
\* pending.
C6_BusyFlagSetAndCleared ==
    /\ [](C6_FlagSetAtDispatch /\ C6_FlagClearedWhenIdle)
    /\ [][C6_FlagClearedOnCompletion]_vars

\* One call has completed with a response and one with an error, both
\* after a network call, and the flag is clear.
C6_Witness ==
    /\ \E i \in Done : calls[i].out.ok /\ calls[i].fetches # <<>>
    /\ \E i \in Done : ~calls[i].out.ok /\ calls[i].fetches # <<>>
    /\ ~isLoading

(***************************************************************************)
(* Properties of the custom-agent normalizer and of the adapters' results. *)
(***************************************************************************)
\* C1: a getAIResponse call enters exactly the adapter that
\* settings.apiProvider names; at most one network call is issued and it is
\* that adapter's; and when the network call fails, or the adapter throws
\* for any other reason, the call returns that failure: no second attempt,
\* no other adapter.
C1_OneAdapterNoFallback ==
    reply # NoOut =>
        /\ reply.adapters = IF probe.settings.apiProvider \in ApiProviders
                            THEN <<probe.settings.apiProvider>> ELSE <<>>
        /\ Len(reply.fetches) <= 1
        /\ \A k \in 1..Len(reply.fetches) : reply.fetches[k] = probe.settings.apiProvider
        /\ probe.raw.kind \in {"net", "http"} => (~reply.ok /\ reply.err # "")
        /\ ~reply.ok => reply.err # ""

\* A call through OpenRouter whose request was answered with an HTTP error
\* has returned the error.
C1_Witness ==
    /\ reply # NoOut /\ ~reply.ok
    /\ probe.settings.apiProvider = "openrouter"
    /\ probe.raw.kind = "http"
    /\ reply.adapters = <<"openrouter">> /\ reply.fetches = <<"openrouter">>

\* The probed call went to the agent, whose answer was the reply object
\* data, and has returned.
Normalized ==
    /\ reply # NoOut /\ reply.ok
    /\ probe.settings.apiProvider = "openclaw"
    /\ probe.raw.shape = "object"

data == probe.raw.body

ContentKeys == <<"response", "message", "text", "output">>

\* C7: content is the first non-empty of response, message, text, output
\* in that order (non-empty as JavaScript's || reads it: the field is there
\* and is not "", 0, false or null), and, when the body has none of the
\* four or none that is non-empty, the JSON text of the whole body.
C7_ReplyTextPriority ==
    Normalized =>
        /\ \A i \in 1..4 :
              (/\ Truthy(data[ContentKeys[i]])
               /\ \A j \in 1..(i - 1) : ~Truthy(data[ContentKeys[j]]))
              => reply.content = data[ContentKeys[i]]
        /\ (\A i \in 1..4 : ~Truthy(data[ContentKeys[i]]))
              => reply.content = Str(StringifyBody(data))
        /\ data = Body(Undef, Undef, Undef, Undef, Undef, Arr(<<Num("1"), Str("go")>>), Str("why"))
              => reply.content = Str("{\"steps\":[1,\"go\"],\"reasoning\":\"why\"}")

\* {message: 'M', text: 'T'} has given 'M'.
C7_Witness ==
    /\ Normalized
    /\ data.response = Undef /\ data.message = Str("M") /\ data.text = Str("T")
    /\ reply.content = Str("M")

\* The steps array with every element that is not a string replaced by its
\* JSON text.
Stringified(steps) ==
    [i \in 1..Len(steps) |->
        IF steps[i].t = "str" THEN steps[i]
        ELSE IF steps[i].t = "arr" THEN Str(JSONstringify(steps[i]))
        ELSE Str(steps[i].s)]

C8_ThoughtsAndSteps ==
    /\ IsArray(data.thoughts) => reply.thoughts = data.thoughts.a
    /\ (~IsArray(data.thoughts) /\ IsArray(data.steps))
          => reply.thoughts = Stringified(data.steps.a)
    /\ (~IsArray(data.thoughts) /\ data.steps = Arr(<<Num("1"), Str("go")>>))
          => reply.thoughts = <<Str("1"), Str("go")>>

\* C8 as stated: thoughts as-is when it is an array, else the stringified
\* steps when that is an array, else the reasoning field, whenever the body
\* has one, as a single-element array.
C8_Original ==
    Normalized =>
        /\ C8_ThoughtsAndSteps
        /\ (~IsArray(data.thoughts) /\ ~IsArray(data.steps) /\ data.reasoning # Undef)
              => reply.thoughts = <<data.reasoning>>

\* C8, amended: the reasoning field is wrapped only when it is truthy; a
\* reasoning field that is there but is "", 0, false or null gives the
\* empty array.
C8_ReasoningTrace ==
    Normalized =>
        /\ C8_ThoughtsAndSteps
        /\ (~IsArray(data.thoughts) /\ ~IsArray(data.steps) /\ Truthy(data.reasoning))
              => reply.thoughts = <<data.reasoning>>
        /\ (~IsArray(data.thoughts) /\ ~IsArray(data.steps) /\ ~Truthy(data.reasoning))
              => reply.thoughts = <<>>

\* {text: 'hi', steps: [1, 'go'], reasoning: 'why'} has given ['1', 'go'].
C8_Witness ==
    /\ Normalized
    /\ data.thoughts = Undef /\ data.steps = Arr(<<Num("1"), Str("go")>>)
    /\ data.reasoning = Str("why")
    /\ reply.thoughts = <<Str("1"), Str("go")>>

\* The body has no array thoughts, no array steps and no reasoning field.
NoTrace == ~IsArray(data.thoughts) /\ ~IsArray(data.steps) /\ data.reasoning = Undef

\* C9 as stated: with no trace in the body the AIResponse has no thoughts
\* field.
C9_Original == (Normalized /\ NoTrace) => ~reply.hasThoughts

\* C9, amended: with no trace in the body the AIResponse has a thoughts
\* field and it is the empty array.
C9_EmptyTrace == (Normalized /\ NoTrace) => (reply.hasThoughts /\ reply.thoughts = <<>>)

\* {response: 'R'} has been normalized.
C9_Witness ==
    /\ Normalized /\ NoTrace
    /\ data.response = Str("R") /\ data.thoughts = Undef /\ data.steps = Undef
    /\ reply.content = Str("R")

\* C10: the content of every AIResponse getAIResponse returns is a string
\* and is not empty.
C10_ContentNonEmptyString ==
    (reply # NoOut /\ reply.ok) => (reply.content.t = "str" /\ reply.content.s # "")

\* The probed call went to the agent with a base URL and a history to send,
\* and has returned.
AgentAnswered ==
    /\ reply # NoOut
    /\ probe.settings.apiProvider = "openclaw"
    /\ probe.settings.openClawBaseUrl # "" /\ Len(probe.history) > 0

\* C11: a response of the agent that is not 2xx makes the call fail with an
\* error whose message holds the status code and the status text, which is
\* not the message a network-level exception gives.
C11_HttpStatusInError ==
    (AgentAnswered /\ probe.raw.kind = "http") =>
        /\ ~reply.ok
        /\ reply.err = "Agent Endpoint Error: " \o probe.raw.status
        /\ reply.err # getAIResponse(probe.history, probe.settings, NetworkError).err

\* The messages of the errors the adapters and the facade make themselves.
WrappedMessages ==
    {GeminiFailed, OpenRouterKeyMissing, OpenRouterError, OpenClawUrlRequired,
     OpenClawFailed, UnknownProvider}

\* The message the aggregator's error body carries, which the adapter
\* wraps in an error of its own.
UpstreamMessages ==
    IF probe.settings.apiProvider = "openrouter" /\ probe.raw.kind = "http"
       /\ probe.raw.shape = "msg" /\ probe.raw.errmsg # ""
    THEN {probe.raw.errmsg} ELSE {}

\* C12: every failure of getAIResponse carries one of the wrapped messages
\* of the adapters; the message of a transport or runtime exception never
\* reaches the caller.
C12_ErrorsWrapped ==
    (reply # NoOut /\ ~reply.ok) => reply.err \in WrappedMessages \cup UpstreamMessages

\* C13: with provider openrouter and no API key, and with provider openclaw
\* and no base URL, getAIResponse fails with the configuration error and has
\* issued no network call, whatever the history.
C13_ConfigErrorBeforeFetch ==
    reply # NoOut =>
        /\ (probe.settings.apiProvider = "openrouter" /\ probe.settings.openRouterApiKey = "")
              => (~reply.ok /\ reply.err = OpenRouterKeyMissing /\ reply.fetches = <<>>)
        /\ (probe.settings.apiProvider = "openclaw" /\ probe.settings.openClawBaseUrl = "")
              => (~reply.ok /\ reply.err = OpenClawUrlRequired /\ reply.fetches = <<>>)

\* A call with a history to send and no aggregator key has failed, though
\* the network had a good answer ready.
C13_Witness ==
    /\ reply # NoOut /\ ~reply.ok /\ reply.fetches = <<>>
    /\ probe.settings.apiProvider = "openrouter" /\ probe.settings.openRouterApiKey = ""
    /\ Len(probe.history) > 0
    /\ probe.raw = OpenRouterBody("content", Str("O"))

\* C14: when generateContent resolves, the hosted-LLM adapter returns an
\* AIResponse, never an error; its content is the response's text, or the
\* fixed fallback string when the text is empty or missing, and is never
\* the empty string.
C14_GeminiEmptyTextFallback ==
    (reply # NoOut /\ probe.settings.apiProvider = "gemini" /\ probe.raw.kind = "ok") =>
        /\ reply.ok
        /\ reply.content # Str("")
        /\ ~Truthy(probe.raw.text) => reply.content = Str("I didn't catch that.")
        /\ Truthy(probe.raw.text) => reply.content = probe.raw.text

\* A response with the text "" has given the fallback string.
C14_Witness ==
    /\ reply # NoOut /\ reply.ok
    /\ probe.settings.apiProvider = "gemini"
    /\ probe.raw = GeminiText(Str(""))
    /\ reply.content = Str(GeminiFallback)

(***************************************************************************)
(* Properties of the start-up resolution and of the settings.              *)
(***************************************************************************)
\* The value a query parameter written as raw stands for.
UrlDecoded(raw) ==
    CASE raw = "http%3A%2F%2Fx" -> "http://x"
      [] raw = "http%3A%2F%2Fx%2F50%25" -> "http://x/50%"
      [] raw = "http%3A%2F%2Fx%2F%2541" -> "http://x/%41"
      [] OTHER -> raw

\* Defaults overlaid field by field with the persisted blob.
Persisted(stored) ==
    [k \in DOMAIN DEFAULT_SETTINGS |->
        IF stored.kind = "json" /\ k \in DOMAIN stored.fields
        THEN stored.fields[k] ELSE DEFAULT_SETTINGS[k]]

\* The settings start-up resolution is to compute from a blob and a query.
Resolved(stored, params) ==
    LET base == Persisted(stored)
        model == UrlDecoded(params.model)
    IN IF params.provider \notin ApiProviders THEN base
       ELSE [base EXCEPT
               !.apiProvider = params.provider,
               !.openClawBaseUrl = IF params.baseUrl # "" THEN UrlDecoded(params.baseUrl) ELSE @,
               !.openClawAgentId = IF params.agentId # "" THEN params.agentId ELSE @,
               !.openClawAuthToken = IF params.authToken # "" THEN params.authToken ELSE @,
               !.geminiModel = IF model # "" /\ params.provider = "gemini" THEN model ELSE @,
               !.openRouterModel = IF model # "" /\ params.provider = "openrouter"
                                   THEN model ELSE @]

\* C15: the page load leaves as Settings the defaults overlaid with the
\* persisted blob, then, when the query names a recognized provider, that
\* provider, the base URL, agent id and auth token the query carries, and
\* the query's model in the field of the provider named.
C15_StartupResolution ==
    [][\A stored \in StartupStored, params \in StartupParams :
          Mount(stored, params) => settings' = Resolved(stored, params)]_vars

\* The query names one of the three providers.
Recognized(params) == params.provider \in ApiProviders

\* The parts of C16: nothing has been sent or appended before the page
\* load has resolved; the resolution never runs a second time; and what
\* the resolution appends and applies.
C16_NothingBeforeStartup == phase = "boot" => (calls = <<>> /\ history = <<>> /\ ~isLoading)

C16_StartupOnce ==
    /\ phase = "ready" => phase' = "ready"
    /\ \A stored \in SessionStored, params \in SessionParams :
          Mount(stored, params) => (phase = "boot" /\ phase' = "ready")

C16_StartupNotice ==
    \A stored \in SessionStored, params \in SessionParams :
        Mount(stored, params) =>
            /\ Recognized(params) =>
                  /\ Len(history') = Len(history) + 1
                  /\ history'[Len(history')].role = "system"
                  /\ history'[Len(history')].content
                        = Str("AUTO-CONFIG: Connected to OPENCLAW via URL parameters.")
            /\ ~Recognized(params) =>
                  /\ history' = history
                  /\ settings' = Persisted(stored)

\* C16: start-up resolution runs once per page load and before any send;
\* it appends exactly one system Message announcing the auto-configuration
\* when the query names a recognized provider, and appends nothing and
\* applies nothing of the query otherwise.
C16_StartupOnceWithNotice ==
    [][C16_NothingBeforeStartup /\ C16_StartupOnce /\ C16_StartupNotice]_vars

\* Every call made so far keeps the settings it was dispatched with.
CallsKeepSettings ==
    \A i \in 1..Len(calls) : calls'[i].settings = calls[i].settings

C18_ProviderIsKnown == settings.apiProvider \in {"gemini", "openrouter", "openclaw"}

(***************************************************************************)
(* C19: every Message of the conversation carries an id that no other      *)
(* Message of the conversation has.                                        *)
(***************************************************************************)
C19_UniqueIds ==
    \A i, j \in 1..Len(history) : i # j => history[i].id # history[j].id


\* The two endpoints of the probed base URL, and which of them answer 2xx.
Root == StripChat(probe.baseUrl.path)

HealthPath == Append(Root, "health")

Answers2xx(ep) == ~probe.net[ep].rejected /\ probe.net[ep].status \in 200..299

(***************************************************************************)
(* C20: checkOpenClawHealth never raises; it returns true exactly when the *)
(* root (base URL without a trailing /chat) or the root's /health answers  *)
(* 2xx, and false when both fail by status or by network exception; it     *)
(* probes only these two endpoints, a failed first probe is followed by    *)
(* the second, and no probe follows a 2xx answer.                          *)
(***************************************************************************)
C20_HealthCheck ==
    reply.done =>
        /\ ~reply.raised
        /\ reply.value \in BOOLEAN
        /\ probe.baseUrl.t = "str" =>
              /\ reply.value <=> (Answers2xx(Root) \/ Answers2xx(HealthPath))
              /\ Len(reply.probes) \in 1..2
              /\ \A k \in 1..Len(reply.probes) : reply.probes[k] \in {Root, HealthPath}
              /\ Len(reply.probes) = 2 => reply.probes[1] # reply.probes[2]
              /\ ~Answers2xx(reply.probes[1]) => Len(reply.probes) = 2
              /\ \A k \in 1..(Len(reply.probes) - 1) : ~Answers2xx(reply.probes[k])
        /\ probe.baseUrl.t # "str" => (~reply.value /\ reply.probes = <<>>)

\* The first probe met a network exception, the second answered 200.
C20_Witness ==
    /\ reply.done
    /\ probe.baseUrl = UrlString(<<"http://x", "api", "chat">>)
    /\ reply.probes = <<<<"http://x", "api", "health">>, <<"http://x", "api">>>>
    /\ probe.net[reply.probes[1]].rejected
    /\ probe.net[reply.probes[2]].status = 200
    /\ reply.value

(***************************************************************************)
(* C21: fetchOpenClawAgents never raises; it returns the empty list on a   *)
(* non-2xx answer, a network exception and a body it cannot read; and for  *)
(* every agent list it returns that list, whether the body is the bare     *)
(* array or the {agents: [...]} envelope around it.                        *)
(***************************************************************************)
C21_AgentDiscovery ==
    reply.done =>
        /\ ~reply.raised
        /\ (probe.ans.kind # "ok" \/ ~probe.ans.data.parsed \/ probe.baseUrl.t # "str")
              => reply.value = Arr(<<>>)
        /\ \A l \in AgentLists :
              (/\ probe.baseUrl.t = "str"
               /\ probe.ans.kind = "ok"
               /\ probe.ans.data \in {BareArray(l), Envelope(Arr(l))})
              => reply.value = Arr(l)

\* A two-agent list arrived inside the envelope and came back unwrapped.
C21_Witness ==
    /\ reply.done
    /\ probe.ans.kind = "ok"
    /\ probe.ans.data = Envelope(Arr(<<Agent("a1"), Agent("a2")>>))
    /\ reply.value = Arr(<<Agent("a1"), Agent("a2")>>)

\* seq holds the same elements as of, each as often.
IsPermutation(seq, of) ==
    /\ Len(seq) = Len(of)
    /\ \A x \in {seq[i] : i \in 1..Len(seq)} \cup {of[i] : i \in 1..Len(of)} :
          Cardinality({i \in 1..Len(seq) : seq[i] = x})
             = Cardinality({i \in 1..Len(of) : of[i] = x})

\* The catalogue call failed: no answer, a status that is not ok, no model list.
ModelsFailed == probe.ans.kind # "ok" \/ probe.ans.shape # "catalogue"

\* Where the catalogue listed the model.
UpstreamIndex(m) == CHOOSE k \in 1..Len(probe.ans.models) : probe.ans.models[k].id = m.id

ModelsContract ==
    /\ ~reply.raised
    /\ ModelsFailed => reply.value = <<>>
    /\ ~ModelsFailed => IsPermutation(reply.value, IdAndName(probe.ans.models))

C23_BusyWhileInFlight == InFlight # {} => isLoading

(***************************************************************************)
(* C24: every provider call the send handler dispatches, from typed input, *)
(* native speech recognition or whisper transcription, is given the        *)
(* Settings in effect at the moment of the send and the History of that    *)
(* moment followed by the new user Message.                                *)
(***************************************************************************)
C24_CallGetsCurrentState ==
    [][Len(calls') = Len(calls) + 1 =>
          LET c == calls'[Len(calls')]
          IN /\ c.settings = settings
             /\ Len(c.history) = Len(history) + 1
             /\ SubSeq(c.history, 1, Len(history)) = history
             /\ c.history[Len(c.history)].role = "user"]_vars

(***************************************************************************)
(* C25: whatever the persisted blob holds (nothing, valid JSON or text     *)
(* that does not parse), a page load whose query names a recognized        *)
(* provider leaves that provider as the apiProvider in effect and the      *)
(* auto-config system Message in the History.                              *)
(***************************************************************************)
C25_UrlOverridesAnyBlob ==
    [][\A stored \in StartupStored, params \in StartupParams :
          (Mount(stored, params) /\ Recognized(params)) =>
              /\ settings'.apiProvider = params.provider
              /\ \E i \in 1..Len(history') :
                    history'[i] = AutoConfigMsg(params.provider)]_vars

\* The probed call went to OpenRouter with a key and the request was answered.
OpenRouterAnswered ==
    /\ reply # NoOut
    /\ probe.settings.apiProvider = "openrouter"
    /\ probe.settings.openRouterApiKey # ""
    /\ probe.raw.kind \in {"ok", "http"}

(***************************************************************************)
(* C26: on a 2xx answer the OpenRouter adapter returns the content at      *)
(* choices[0].message.content when the body has it, and the empty string,  *)
(* without throwing, for a body without choices, with no choice, or with a *)
(* first choice lacking message or content.                                *)
(***************************************************************************)
C26_MissingFieldGivesEmpty ==
    (OpenRouterAnswered /\ probe.raw.kind = "ok") =>
        /\ (probe.raw.shape = "content" /\ Truthy(probe.raw.content))
              => (reply.ok /\ reply.content = probe.raw.content)
        /\ probe.raw.shape \in {"nochoices", "empty", "nomessage", "nocontent"}
              => (reply.ok /\ reply.content = Str(""))

(***************************************************************************)
(* C27: on a non-2xx answer the OpenRouter adapter fails with the body's   *)
(* error.message when the body has one, and with the generic label         *)
(* "OpenRouter Error" in every other case: no such field, or a body that   *)
(* does not parse.                                                         *)
(***************************************************************************)
C27_HttpErrorMessage ==
    (OpenRouterAnswered /\ probe.raw.kind = "http") =>
        /\ ~reply.ok
        /\ reply.err = IF probe.raw.shape = "msg" /\ probe.raw.errmsg # ""
                       THEN probe.raw.errmsg ELSE OpenRouterError

\* The message of the rejection carries the provider's invalid-key marker.
HasInvalidKeyMarker(message) ==
    message \in {"API key not valid", "API key not valid. Please pass a valid API key."}

(***************************************************************************)
(* C28: when generateContent rejects with a message that carries the       *)
(* invalid-key marker, the Gemini adapter fails with an error text of its  *)
(* own, different from the generic text of every other failure.            *)
(***************************************************************************)
C28_InvalidKeyDistinct ==
    (/\ reply # NoOut
     /\ probe.settings.apiProvider = "gemini"
     /\ probe.raw.kind # "ok"
     /\ HasInvalidKeyMarker(probe.raw.errmsg))
        => (~reply.ok /\ reply.err # GeminiFailed)

\* The images among the attachments, in their order.
Images(attachments) == SelectSeq(attachments, LAMBDA att : IsImage(att.type))

C30_OpenClawRequest ==
    (reply.done /\ reply.sent /\ probe.settings.apiProvider = "openclaw") =>
        LET body == reply.request.body
            headers == reply.request.headers
            n == Len(probe.history)
            token == probe.settings.openClawAuthToken
        IN /\ body.message = probe.history[n].content
           /\ Len(body.history) = n - 1
           /\ \A i \in 1..(n - 1) :
                 /\ DOMAIN body.history[i] = {"role", "content"}
                 /\ body.history[i].role = probe.history[i].role
                 /\ body.history[i].content = probe.history[i].content
           /\ Len(body.files) = Len(probe.attachments)
           /\ \A i \in 1..Len(probe.attachments) :
                 /\ DOMAIN body.files[i] = {"name", "type", "data"}
                 /\ body.files[i] = probe.attachments[i]
           /\ token # "" =>
                 /\ {"Authorization", "XApiKey"} \subseteq DOMAIN headers
                 /\ headers.Authorization = "Bearer " \o token
                 /\ headers.XApiKey = token
           /\ token = "" => DOMAIN headers \cap {"Authorization", "XApiKey"} = {}

\* A turn with a PDF and an image went to an agent with a token, after an
\* earlier turn whose user message had attachments of its own.
C30_Witness ==
    /\ reply.done /\ reply.sent /\ probe.settings.apiProvider = "openclaw"
    /\ probe.settings.openClawAuthToken = "tok"
    /\ probe.attachments = <<Pdf, Png>>
    /\ Len(probe.history) = 3
    /\ probe.history[1] = UserMsg("look", <<Pdf, Png, Jpeg>>)
    /\ reply.request.headers.XApiKey = "tok"
    /\ Len(reply.request.body.files) = 2

====
